---- MODULE Spec2Model ----
(***************************************************************************)
(* Model of the timing code of the portfolio front end:                    *)
(*   - TypingEffect (typing-effect controller, src/unnamed/part_001)       *)
(*   - MultiLineTypingEffect (src/unnamed/part_001)                        *)
(*   - debounce and throttle (src/Frontend/js/utils.js)                    *)
(*   - AnimationController.typeWriter (src/Frontend/js/animations.js)      *)
(*   - ProjectsController's filter (src/Frontend/js/utils.js)              *)
(*   - ContactController's submission (src/Frontend/js/contact.js)         *)
(*   - PortfolioApp's start-up and theme system (src/unnamed/part_000)     *)
(* Strings are sequences of one-character strings.  Timers are the host's  *)
(* setTimeout queue: a set of records [id, rem] where rem is the time      *)
(* left until the callback is due.  A handle that is neither pending nor   *)
(* held by the object is reused, which the program cannot observe.         *)
(***************************************************************************)
EXTENDS Integers, Sequences, FiniteSets, TLC

VARIABLES
    te,        \* the TypingEffect object, its sink and its timers
    hidden,    \* document.hidden
    lastOp,    \* ghost: the call or event of the last step
    pre,       \* ghost: what that call found (paused, timers pending)
    db,        \* a debounce wrapper: its closure and its timers
    now,       \* the clock of the debounce wrapper's host
    calls,     \* ghost: the wrapper calls made, [t, args]
    invs,      \* ghost: the invocations of func, [t, args, seen, sync]
    th,        \* a throttle wrapper: its closure and its timers
    wrapper,   \* ghost: the wrapper the host made ("none" when it made none)
    hist,      \* ghost: the texts an undisturbed TypingEffect has completed
    ml,        \* the MultiLineTypingEffect object, its sinks and its timers
    mlog,      \* ghost: the last call on ml, its clock and the writes of a run
    tw,        \* a typeWriter closure, its sink and its timers
    plog,      \* ghost: the displays of a typeWriter and a TypingEffect
    pc,        \* the ProjectsController, its cards, buttons and timers
    cc,        \* the ContactController, its form and its submissions
    app        \* the PortfolioApp, its loading screen, storage and theme

teVars == <<te, hidden, lastOp, pre>>
dbVars == <<db, now, calls, invs>>
mlVars == <<ml, mlog>>
uiVars == <<tw, plog, pc, cc, app>>
vars == <<te, hidden, lastOp, pre, db, now, calls, invs, th, wrapper, hist,
          ml, mlog, tw, plog, pc, cc, app>>

----------------------------------------------------------------------------
(* Bounds and inputs *)

\* most timers pending at once (resume()/start() can add timers without end)
MaxTimers == 2
\* cap on currentCharIndex (it grows without end on an empty text)
MaxCharIndex == 3
\* options.typeSpeed, options.deleteSpeed, options.pauseTime, scaled down
typeSpeed == 2
deleteSpeed == 1
pauseTime == 3

\* null handle (this.timeoutId = null)
NoTimer == 0

\* debounce: the clock stops at MaxTime, the wrapper is called MaxCalls times
MaxTime == 8
MaxCalls == 3
\* the wait values a wrapper is made with (one time unit stands for 10 ms)
WaitValues == {2, 5}
\* the arguments a wrapper is called with
Args == {"p", "q"}
\* the limit values a throttle wrapper is made with
LimitValues == {2, 5}

\* an undisturbed run is followed for MaxHist completed typings and deletions
MaxHist == 6

\* the text lists an undisturbed TypingEffect is constructed with
RunLists ==
    { << <<"a", "b">> >>,
      << <<"a">>, <<"b", "c">> >>,
      << <<"a">>, <<"b">>, <<"c", "d">> >>,
      << << >>, <<"a">> >> }

\* options.lineDelay of MultiLineTypingEffect, scaled down like typeSpeed
lineDelay == 4
\* options.cursorChar
cursorChar == "|"
\* an undisturbed MultiLineTypingEffect is followed for MaxWrites sink writes
MaxWrites == 8

\* the line lists a MultiLineTypingEffect is constructed with
LineLists ==
    { << >>,
      << <<"a", "b">>, <<"c">> >>,
      << << >>, <<"a">> >>,
      << <<"a">>, << >>, <<"b", "c">> >> }

\* a typeWriter and a TypingEffect are followed for MaxDisplays writes each
MaxDisplays == 8

\* the text lists a typeWriter and a TypingEffect are both given
PairLists ==
    { << <<"a", "b">> >>,
      << <<"a">>, <<"b", "c">> >>,
      << <<"a">>, <<"b">>, <<"c", "d">> >> }

\* filterProjects: 50 ms between the cards' hide callbacks, 100 ms more
\* before the show callback, 100 ms between the reveal callbacks; one time
\* unit stands for 50 ms
hideStep == 1
showExtra == 2
revealStep == 2

\* the data-filter values of the filter buttons
Filters == {"all", "web", "design"}
\* the data-category values of the cards a ProjectsController finds
CardLists ==
    { << >>,
      << "web", "design" >>,
      << "design", "web", "web" >> }

\* submitForm settles 2000 ms after the call; one time unit stands for 1000 ms
submitDelay == 2
\* most submissions in flight at once (Ctrl+Enter can add them without end)
MaxPending == 2
\* the names of the form's fields and the values a field is given
Fields == {"email", "message"}
Values == {"", "bad", "good"}

\* the images preloadAssets waits for
MaxImages == 2
\* hideLoadingScreen removes the screen 500 ms after the call; one time unit
\* stands for 250 ms
removeDelay == 2

\* the text lists a TypingEffect is constructed with
TextLists ==
    { << >>,
      << <<"a", "b">> >>,
      << <<"a">>, <<"b", "c">> >>,
      << << >>, <<"a">> >> }

----------------------------------------------------------------------------
(* Host functions *)

Min(a, b) == IF a < b THEN a ELSE b
Max(a, b) == IF a > b THEN a ELSE b

\* String.prototype.substring(a, b): both ends clamped to [0, length],
\* swapped when a > b
substring(str, a, b) ==
    LET ca == Max(0, Min(a, Len(str)))
        cb == Max(0, Min(b, Len(str)))
        lo == Min(ca, cb)
        hi == Max(ca, cb)
    IN  SubSeq(str, lo + 1, hi)

\* the handle setTimeout returns: the first one that is not pending and not held
FreshId(timers, held) ==
    CHOOSE i \in 1..(Cardinality(timers) + 2) :
        /\ i # held
        /\ \A t \in timers : t.id # i
        /\ \A j \in 1..(i - 1) : j = held \/ \E t \in timers : t.id = j

NewTimerId(s) == FreshId(s.timers, s.timeoutId)

\* this.timeoutId = setTimeout(() => this.type(), delay)
setTimeout(s, delay) ==
    LET id == NewTimerId(s)
    IN  [s EXCEPT !.timers = @ \cup {[id |-> id, rem |-> delay]},
                  !.timeoutId = id]

clearTimeout(s, id) == [s EXCEPT !.timers = {t \in @ : t.id # id}]

----------------------------------------------------------------------------
(* TypingEffect *)

\* the fields the constructor sets, before init()
NewTypingEffect(element, texts, loop) ==
    [ element          |-> element,      \* is there a sink
      textContent      |-> << >>,        \* element.textContent
      texts            |-> texts,
      loop             |-> loop,         \* options.loop
      currentTextIndex |-> 0,
      currentCharIndex |-> 0,
      isDeleting       |-> FALSE,
      isPaused         |-> FALSE,
      timeoutId        |-> NoTimer,
      timers           |-> {},
      threw            |-> FALSE,        \* the last call ended in a TypeError
      stopped          |-> FALSE,        \* ghost: type() took the loop=false return
      destroyed        |-> FALSE ]       \* ghost: destroy() was called

\* this.element.textContent = text; a TypeError when there is no element
setTextContent(s, text) ==
    IF s.element THEN [s EXCEPT !.textContent = text]
    ELSE [s EXCEPT !.threw = TRUE]

\* stop() that cancels the timer and keeps the handle
stopKeepsHandle(s) == clearTimeout(s, s.timeoutId)

stop(s) ==
    IF s.timeoutId # NoTimer
    THEN [clearTimeout(s, s.timeoutId) EXCEPT !.timeoutId = NoTimer]
    ELSE s

\* `!this.options.loop` alone: stops after the first text's pass
stopsAfterAnyText(s, ti) == ~s.loop

\* never takes the loop=false return
stopsNever(s, ti) == FALSE

\* `!this.options.loop && this.currentTextIndex === 0`, ti the advanced index
notLoopingAndReachedTheEnd(s, ti) == ~s.loop /\ ti = 0

\* type() past its first line, `if (this.isPaused) return;`
typeStep(s) ==
    IF s.currentTextIndex >= Len(s.texts)
    THEN \* currentText is undefined: currentText.substring throws
         [s EXCEPT !.threw = TRUE]
    ELSE
    LET currentText == s.texts[s.currentTextIndex + 1]
    IN  IF ~s.isDeleting
        THEN LET displayText == substring(currentText, 0, s.currentCharIndex + 1)
                 ci == s.currentCharIndex + 1
                 done == (ci = Len(currentText))
                 s1 == [s EXCEPT !.currentCharIndex = ci,
                                 !.isDeleting = done]
                 s2 == setTextContent(s1, displayText)
             IN  IF s2.threw THEN s2
                 ELSE setTimeout(s2, IF done THEN pauseTime ELSE typeSpeed)
        ELSE LET displayText == substring(currentText, 0, s.currentCharIndex - 1)
                 ci == s.currentCharIndex - 1
                 s1 == [s EXCEPT !.currentCharIndex = ci]
             IN  IF ci = 0
                 THEN LET ti == (s.currentTextIndex + 1) % Len(s.texts)
                          s2 == [s1 EXCEPT !.isDeleting = FALSE,
                                           !.currentTextIndex = ti]
                      IN  IF notLoopingAndReachedTheEnd(s, ti)
                          THEN [setTextContent(s2, displayText)
                                    EXCEPT !.stopped = TRUE]
                          ELSE LET s3 == setTextContent(s2, displayText)
                               IN  IF s3.threw THEN s3
                                   ELSE setTimeout(s3, typeSpeed)
                 ELSE LET s3 == setTextContent(s1, displayText)
                      IN  IF s3.threw THEN s3
                          ELSE setTimeout(s3, deleteSpeed)

\* type() that runs although the machine is paused
typeIgnoresPause(s) == typeStep(s)

type(s) == IF s.isPaused THEN s ELSE typeStep(s)

start(s) == type(s)

init(s) ==
    IF ~s.element \/ Len(s.texts) = 0 THEN s
    ELSE start(setTextContent(s, << >>))

reset(s) ==
    setTextContent(
        [stop(s) EXCEPT !.currentTextIndex = 0,
                        !.currentCharIndex = 0,
                        !.isDeleting = FALSE,
                        !.isPaused = FALSE],
        << >>)

\* pause() that flips the flag
pauseToggles(s) == stop([s EXCEPT !.isPaused = ~@])

\* pause() that sets the flag and cancels nothing
pauseForgetsStop(s) == [s EXCEPT !.isPaused = TRUE]

pause(s) == stop([s EXCEPT !.isPaused = TRUE])

resume(s) == start([s EXCEPT !.isPaused = FALSE])

changeTexts(s, newTexts) ==
    LET r == reset([s EXCEPT !.texts = newTexts])
    IN  IF r.threw THEN r ELSE start(r)

destroy(s) == setTextContent(stop(s), << >>)

----------------------------------------------------------------------------
(* Actions of the TypingEffect specification *)

\* the object as a call finds it: no exception in flight
Call(s) == [s EXCEPT !.threw = FALSE]

\* a call that may leave one more timer pending fits the bound
Room(n) == Cardinality(te.timers) + n <= MaxTimers

Found(s) == [isPaused |-> s.isPaused, pending |-> Cardinality(s.timers)]

Step(op, s) ==
    /\ te' = s
    /\ pre' = Found(te)
    /\ lastOp' = op
    /\ UNCHANGED <<dbVars, th, wrapper, mlVars, uiVars, hist>>

TEIdle ==
    /\ te = NewTypingEffect(FALSE, << >>, FALSE)
    /\ hidden = FALSE
    /\ lastOp = "new"
    /\ pre = Found(te)
    /\ hist = << >>

\* new TypingEffect(element, texts, {loop})
TEInit ==
    /\ \E element \in BOOLEAN, texts \in TextLists, loop \in BOOLEAN :
          te = init(NewTypingEffect(element, texts, loop))
    /\ hidden = FALSE
    /\ lastOp = "new"
    /\ pre = Found(NewTypingEffect(FALSE, << >>, FALSE))
    /\ hist = << >>

\* one time unit passes; a due timer fires first
Advance ==
    /\ te.timers # {}
    /\ \A t \in te.timers : t.rem > 0
    /\ Step("advance",
            [te EXCEPT !.timers = {[t EXCEPT !.rem = @ - 1] : t \in @}])
    /\ UNCHANGED hidden

\* a due timer fires: the host drops it and runs () => this.type()
Tick ==
    /\ te.currentCharIndex < MaxCharIndex
    /\ \E t \in te.timers :
          /\ t.rem = 0
          /\ Step("tick", type(Call([te EXCEPT !.timers = @ \ {t}])))
    /\ UNCHANGED hidden

Start ==
    /\ Room(1)
    /\ te.currentCharIndex < MaxCharIndex
    /\ Step("start", start([Call(te) EXCEPT !.stopped = FALSE,
                                             !.destroyed = FALSE]))
    /\ UNCHANGED hidden

Stop ==
    /\ Step("stop", stop(Call(te)))
    /\ UNCHANGED hidden

Reset ==
    /\ Step("reset", [reset(Call(te)) EXCEPT !.stopped = FALSE,
                                              !.destroyed = FALSE])
    /\ UNCHANGED hidden

Pause ==
    /\ Step("pause", pause(Call(te)))
    /\ UNCHANGED hidden

Resume ==
    /\ Room(1)
    /\ te.currentCharIndex < MaxCharIndex
    /\ Step("resume", resume(Call(te)))
    /\ UNCHANGED hidden

ChangeTexts ==
    /\ Room(1)
    /\ \E newTexts \in TextLists :
          Step("changeTexts",
               [changeTexts(Call(te), newTexts) EXCEPT !.stopped = FALSE,
                                                        !.destroyed = FALSE])
    /\ UNCHANGED hidden

Destroy ==
    /\ Step("destroy", [destroy(Call(te)) EXCEPT !.destroyed = TRUE])
    /\ UNCHANGED hidden

\* document's visibilitychange event: the typing module's listener and
\* PortfolioApp.handleVisibilityChange both run, on window.typingEffect
VisibilityChange ==
    /\ te.element
    /\ hidden' = ~hidden
    /\ IF hidden'
       THEN Step("hide", pause(pause(Call(te))))
       ELSE /\ Room(2)
            /\ te.currentCharIndex + 1 < MaxCharIndex
            /\ Step("show", resume(resume(Call(te))))

Next ==
    \/ Advance
    \/ Tick
    \/ Start
    \/ Stop
    \/ Reset
    \/ Pause
    \/ Resume
    \/ ChangeTexts
    \/ Destroy
    \/ VisibilityChange

----------------------------------------------------------------------------
(* An undisturbed TypingEffect: constructed, then only its timer runs *)

\* what one run of type() completed: a text shown in full ("typed") or
\* deleted to nothing ("deleted"), with the text the sink then shows
Events(s, s2) ==
    IF ~s.isDeleting /\ s2.isDeleting
    THEN << [ev |-> "typed", text |-> s.currentTextIndex, shown |-> s2.textContent] >>
    ELSE IF s.isDeleting /\ ~s2.isDeleting
    THEN << [ev |-> "deleted", text |-> s.currentTextIndex, shown |-> s2.textContent] >>
    ELSE << >>

RunStep(op, s) ==
    /\ te' = s
    /\ pre' = Found(te)
    /\ lastOp' = op
    /\ hist' = hist \o Events(te, s)
    /\ UNCHANGED <<dbVars, th, wrapper, mlVars, uiVars, hidden>>

\* new TypingEffect(element, texts, {loop}) with a sink and a non-empty list
RunInit ==
    /\ \E texts \in RunLists, loop \in BOOLEAN :
          LET new == NewTypingEffect(TRUE, texts, loop)
          IN  /\ te = init(new)
              /\ hist = Events(new, te)
    /\ hidden = FALSE
    /\ lastOp = "new"
    /\ pre = Found(NewTypingEffect(FALSE, << >>, FALSE))

\* one time unit passes; a due timer fires first
RunAdvance ==
    /\ te.timers # {}
    /\ \A t \in te.timers : t.rem > 0
    /\ RunStep("advance",
               [te EXCEPT !.timers = {[t EXCEPT !.rem = @ - 1] : t \in @}])

\* a due timer fires: the host drops it and runs () => this.type()
RunTick ==
    /\ te.currentCharIndex < MaxCharIndex
    /\ Len(hist) < MaxHist
    /\ \E t \in te.timers :
          /\ t.rem = 0
          /\ RunStep("tick", type(Call([te EXCEPT !.timers = @ \ {t}])))

\* a count above every text length behaves like any other such count: type()
\* shows the whole text and raises it again
Saturated(s) == [s EXCEPT !.currentCharIndex = Min(@, MaxCharIndex)]

\* a due timer fires, in a run that is followed without end
LiveTick ==
    \E t \in te.timers :
        /\ t.rem = 0
        /\ te' = Saturated(type(Call([te EXCEPT !.timers = @ \ {t}])))
        /\ pre' = Found(te)
        /\ lastOp' = "tick"
        /\ UNCHANGED <<hist, dbVars, th, wrapper, mlVars, uiVars, hidden>>

----------------------------------------------------------------------------
(* debounce(func, wait, immediate) *)

\* the closure debounce returns: `let timeout;` is undefined at first.
\* out: the calls of func the last step made (their arguments)
NewDebounce(wait, immediate) ==
    [ wait      |-> wait,
      immediate |-> immediate,
      timeout   |-> NoTimer,
      timers    |-> {},
      out       |-> << >> ]

\* later() that calls func in either mode
laterAlwaysCalls(d, args) == [d EXCEPT !.timeout = NoTimer, !.out = <<args>>]

\* const later = () => { timeout = null; if (!immediate) func(...args); }
later(d, args) ==
    [d EXCEPT !.timeout = NoTimer,
              !.out = IF ~d.immediate THEN <<args>> ELSE << >>]

\* a wrapper that schedules without clearTimeout(timeout)
executedFunctionNoClear(d, args) ==
    LET callNow == d.immediate /\ d.timeout = NoTimer
        id == FreshId(d.timers, NoTimer)
    IN  [d EXCEPT !.timers = @ \cup {[id |-> id, rem |-> d.wait, args |-> args]},
                  !.timeout = id,
                  !.out = IF callNow THEN <<args>> ELSE << >>]

executedFunction(d, args) ==
    LET callNow == d.immediate /\ d.timeout = NoTimer
        cleared == {t \in d.timers : t.id # d.timeout}
        id == FreshId(cleared, NoTimer)
    IN  [d EXCEPT !.timers = cleared \cup {[id |-> id, rem |-> d.wait, args |-> args]},
                  !.timeout = id,
                  !.out = IF callNow THEN <<args>> ELSE << >>]

\* the invocations of func a step made, as log entries
Logged(out, t, seen, sync) ==
    [i \in 1..Len(out) |-> [t |-> t, args |-> out[i], seen |-> seen, sync |-> sync]]

DBIdle ==
    /\ db = NewDebounce(1, FALSE)
    /\ now = 0
    /\ calls = << >>
    /\ invs = << >>

\* const f = debounce(func, wait, immediate), at time 0
DBInit ==
    /\ \E wait \in WaitValues, immediate \in BOOLEAN :
          db = NewDebounce(wait, immediate)
    /\ now = 0
    /\ calls = << >>
    /\ invs = << >>

\* f(args)
DbCall ==
    /\ Len(calls) < MaxCalls
    /\ \E args \in Args :
          LET d == executedFunction(db, args)
          IN  /\ db' = d
              /\ calls' = Append(calls, [t |-> now, args |-> args])
              /\ invs' = invs \o Logged(d.out, now, Len(calls) + 1, TRUE)
    /\ UNCHANGED <<now, teVars, th, wrapper, mlVars, uiVars, hist>>

\* a due timer fires: the host drops it and runs later()
DbFire ==
    /\ \E t \in db.timers :
          /\ t.rem = 0
          /\ LET d == later([db EXCEPT !.timers = @ \ {t}], t.args)
             IN  /\ db' = d
                 /\ invs' = invs \o Logged(d.out, now, Len(calls), FALSE)
    /\ UNCHANGED <<now, calls, teVars, th, wrapper, mlVars, uiVars, hist>>

\* one time unit passes; a due timer fires first
DbAdvance ==
    /\ now < MaxTime
    /\ \A t \in db.timers : t.rem > 0
    /\ now' = now + 1
    /\ db' = [db EXCEPT !.timers = {[t EXCEPT !.rem = @ - 1] : t \in @},
                        !.out = << >>]
    /\ UNCHANGED <<calls, invs, teVars, th, wrapper, mlVars, uiVars, hist>>

----------------------------------------------------------------------------
(* throttle(func, limit) *)

\* the closure throttle returns: `let inThrottle;` is undefined at first
NewThrottle(limit) ==
    [ limit      |-> limit,
      inThrottle |-> FALSE,
      timers     |-> {},
      out        |-> << >> ]

\* a wrapper that never opens the cooldown (no inThrottle = true)
throttledNoFlag(h, args) ==
    [h EXCEPT !.out = <<args>>,
              !.timers = @ \cup {[id |-> FreshId(@, NoTimer), rem |-> h.limit]}]

\* a wrapper that opens the cooldown and schedules nothing to end it
throttledNoTimer(h, args) ==
    IF ~h.inThrottle
    THEN [h EXCEPT !.out = <<args>>, !.inThrottle = TRUE]
    ELSE [h EXCEPT !.out = << >>]

\* function(...args) { if (!inThrottle) { func.apply(this, args); ... } }
throttled(h, args) ==
    IF ~h.inThrottle
    THEN [h EXCEPT !.out = <<args>>,
                   !.inThrottle = TRUE,
                   !.timers = @ \cup {[id |-> FreshId(@, NoTimer), rem |-> h.limit]}]
    ELSE [h EXCEPT !.out = << >>]

\* () => inThrottle = false
cooldownOver(h) == [h EXCEPT !.inThrottle = FALSE, !.out = << >>]

THIdle == th = NewThrottle(1)

\* const f = throttle(func, limit), at time 0
THInit == \E limit \in LimitValues : th = NewThrottle(limit)

\* f(args)
ThCall ==
    /\ Len(calls) < MaxCalls
    /\ \E args \in Args :
          LET h == throttled(th, args)
          IN  /\ th' = h
              /\ calls' = Append(calls, [t |-> now, args |-> args])
              /\ invs' = invs \o Logged(h.out, now, Len(calls) + 1, TRUE)
    /\ UNCHANGED <<now, db, teVars, wrapper, mlVars, uiVars, hist>>

\* the cooldown timer fires: the host drops it and runs the callback
ThFire ==
    /\ \E t \in th.timers :
          /\ t.rem = 0
          /\ LET h == cooldownOver([th EXCEPT !.timers = @ \ {t}])
             IN  /\ th' = h
                 /\ invs' = invs \o Logged(h.out, now, Len(calls), FALSE)
    /\ UNCHANGED <<now, calls, db, teVars, wrapper, mlVars, uiVars, hist>>

\* one time unit passes; a due timer fires first
ThAdvance ==
    /\ now < MaxTime
    /\ \A t \in th.timers : t.rem > 0
    /\ now' = now + 1
    /\ th' = [th EXCEPT !.timers = {[t EXCEPT !.rem = @ - 1] : t \in @},
                        !.out = << >>]
    /\ UNCHANGED <<calls, invs, db, teVars, wrapper, mlVars, uiVars, hist>>

----------------------------------------------------------------------------
(* MultiLineTypingEffect *)

\* the fields the constructor sets before this.init()
NewMultiLine(container, lines, showCursor) ==
    [ container        |-> container,    \* a container element was passed
      attached         |-> FALSE,        \* the line elements are in it
      lines            |-> lines,
      showCursor       |-> showCursor,   \* options.showCursor
      currentLineIndex |-> 0,
      currentCharIndex |-> 0,
      timeoutId        |-> NoTimer,
      elements         |-> << >>,        \* textContent of each line element
      timers           |-> {},
      threw            |-> FALSE,        \* the last call ended in a TypeError
      wrote            |-> << >> ]       \* ghost: the sink writes of the last call

Write(m, i, text) ==
    [m EXCEPT !.elements[i + 1] = text,
              !.wrote = Append(@, [sink |-> i, text |-> text])]

ml_stop(m) ==
    IF m.timeoutId # NoTimer
    THEN [clearTimeout(m, m.timeoutId) EXCEPT !.timeoutId = NoTimer]
    ELSE m

\* typeCharacter that shows the whole line at once
typeCharacterWholeLine(m) ==
    LET i == m.currentLineIndex
        m1 == Write(m, i, m.lines[i + 1])
    IN  setTimeout([m1 EXCEPT !.currentCharIndex = Len(m.lines[i + 1])], typeSpeed)

\* typeCharacter that shows the cursor on every line
typeCharacterCursorOnEveryLine(m) ==
    LET i == m.currentLineIndex
        displayText == substring(m.lines[i + 1], 0, m.currentCharIndex + 1)
        shown == IF m.showCursor THEN Append(displayText, cursorChar)
                 ELSE displayText
        m1 == Write(m, i, shown)
    IN  setTimeout([m1 EXCEPT !.currentCharIndex = @ + 1], typeSpeed)

\* the branch `this.currentCharIndex < currentLine.length` of typeLine
typeCharacter(m) ==
    LET i == m.currentLineIndex
        currentLine == m.lines[i + 1]
        displayText == substring(currentLine, 0, m.currentCharIndex + 1)
        shown == IF m.showCursor /\ i = Len(m.lines) - 1
                 THEN Append(displayText, cursorChar)
                 ELSE displayText
        m1 == Write(m, i, shown)
    IN  setTimeout([m1 EXCEPT !.currentCharIndex = @ + 1], typeSpeed)

\* finishLine that schedules nothing after the last line
finishLineStopsAtLast(m) ==
    LET i == m.currentLineIndex
        m1 == [Write(m, i, m.lines[i + 1]) EXCEPT !.currentLineIndex = i + 1,
                                                  !.currentCharIndex = 0]
    IN  IF i + 1 = Len(m.lines) THEN m1 ELSE setTimeout(m1, lineDelay)

\* finishLine that leaves the cursor on the last line
finishLineKeepsCursor(m) ==
    LET i == m.currentLineIndex
        shown == IF m.showCursor /\ i = Len(m.lines) - 1
                 THEN Append(m.lines[i + 1], cursorChar)
                 ELSE m.lines[i + 1]
        m1 == Write(m, i, shown)
    IN  setTimeout([m1 EXCEPT !.currentLineIndex = i + 1,
                              !.currentCharIndex = 0], lineDelay)

\* finishLine that moves two lines on
finishLineSkipsOne(m) ==
    LET i == m.currentLineIndex
        m1 == Write(m, i, m.lines[i + 1])
    IN  setTimeout([m1 EXCEPT !.currentLineIndex = i + 2,
                              !.currentCharIndex = 0], lineDelay)

\* finishLine that schedules no tick for the next line
finishLineForgetsTimer(m) ==
    LET i == m.currentLineIndex
        m1 == Write(m, i, m.lines[i + 1])
    IN  [m1 EXCEPT !.currentLineIndex = i + 1, !.currentCharIndex = 0]

\* finishLine that waits typeSpeed instead of lineDelay
finishLineAfterTypeSpeed(m) ==
    LET i == m.currentLineIndex
        m1 == Write(m, i, m.lines[i + 1])
    IN  setTimeout([m1 EXCEPT !.currentLineIndex = i + 1,
                              !.currentCharIndex = 0], typeSpeed)

\* the else branch of typeLine: "Finished current line, move to next"
finishLine(m) ==
    LET i == m.currentLineIndex
        m1 == Write(m, i, m.lines[i + 1])
    IN  setTimeout([m1 EXCEPT !.currentLineIndex = i + 1,
                              !.currentCharIndex = 0], lineDelay)

typeLine(m) ==
    IF m.currentLineIndex >= Len(m.lines) THEN m
    ELSE IF m.currentLineIndex >= Len(m.elements)
    THEN \* currentElement is undefined: setting its textContent throws
         [m EXCEPT !.threw = TRUE]
    ELSE IF m.currentCharIndex < Len(m.lines[m.currentLineIndex + 1])
    THEN typeCharacter(m)
    ELSE finishLine(m)

ml_start(m) == typeLine(m)

ml_init(m) ==
    IF ~m.container \/ Len(m.lines) = 0 THEN m
    ELSE ml_start([m EXCEPT !.attached = TRUE,
                            !.elements = [j \in 1..Len(m.lines) |-> << >>]])

ml_reset(m) ==
    LET m1 == ml_stop(m)
    IN  [m1 EXCEPT !.currentLineIndex = 0,
                   !.currentCharIndex = 0,
                   !.elements = [j \in 1..Len(@) |-> << >>]]

\* this.container.innerHTML = '' detaches the line elements; a TypeError
\* when there is no container
ml_destroy(m) ==
    LET m1 == ml_stop(m)
    IN  IF m1.container THEN [m1 EXCEPT !.attached = FALSE]
        ELSE [m1 EXCEPT !.threw = TRUE]

\* a call starts with no exception and no write on record
MlCall(m) == [m EXCEPT !.threw = FALSE, !.wrote = << >>]

NoLog == [op |-> "new", now |-> 0, writes |-> << >>]

MlStep(op, m) ==
    /\ ml' = m
    /\ mlog' = [mlog EXCEPT !.op = op]
    /\ UNCHANGED <<teVars, hist, dbVars, th, wrapper, uiVars>>

MLIdle ==
    /\ ml = NewMultiLine(FALSE, << >>, FALSE)
    /\ mlog = NoLog

\* new MultiLineTypingEffect(container, lines, {showCursor})
MLInit ==
    /\ \E container \in BOOLEAN, lines \in LineLists, showCursor \in BOOLEAN :
          ml = ml_init(NewMultiLine(container, lines, showCursor))
    /\ mlog = NoLog

\* one time unit passes; a due timer fires first
MlAdvance ==
    /\ ml.timers # {}
    /\ \A t \in ml.timers : t.rem > 0
    /\ MlStep("advance",
              [ml EXCEPT !.timers = {[t EXCEPT !.rem = @ - 1] : t \in @}])

\* a due timer fires: the host drops it and runs () => this.typeLine()
MlTick ==
    \E t \in ml.timers :
        /\ t.rem = 0
        /\ MlStep("tick", typeLine(MlCall([ml EXCEPT !.timers = @ \ {t}])))

MlStart ==
    /\ Cardinality(ml.timers) < MaxTimers
    /\ MlStep("start", ml_start(MlCall(ml)))

MlStop == MlStep("stop", ml_stop(MlCall(ml)))

MlReset == MlStep("reset", ml_reset(MlCall(ml)))

MlDestroy == MlStep("destroy", ml_destroy(MlCall(ml)))

\* an undisturbed MultiLineTypingEffect: constructed with a container, then
\* only its timer runs; the clock and every sink write are on record
Stamped(wrote, t) ==
    [k \in 1..Len(wrote) |->
        [t |-> t, sink |-> wrote[k].sink, text |-> wrote[k].text]]

LineRunInit ==
    /\ \E lines \in LineLists, showCursor \in BOOLEAN :
          ml = ml_init(NewMultiLine(TRUE, lines, showCursor))
    /\ mlog = [op |-> "new", now |-> 0, writes |-> Stamped(ml.wrote, 0)]

LineRunAdvance ==
    /\ ml.timers # {}
    /\ \A t \in ml.timers : t.rem > 0
    /\ ml' = [ml EXCEPT !.timers = {[t EXCEPT !.rem = @ - 1] : t \in @}]
    /\ mlog' = [mlog EXCEPT !.op = "advance", !.now = @ + 1]
    /\ UNCHANGED <<teVars, hist, dbVars, th, wrapper, uiVars>>

LineRunTick ==
    /\ Len(mlog.writes) < MaxWrites
    /\ \E t \in ml.timers :
          /\ t.rem = 0
          /\ ml' = typeLine(MlCall([ml EXCEPT !.timers = @ \ {t}]))
          /\ mlog' = [mlog EXCEPT !.op = "tick",
                                  !.writes = @ \o Stamped(ml'.wrote, mlog.now)]
    /\ UNCHANGED <<teVars, hist, dbVars, th, wrapper, uiVars>>

----------------------------------------------------------------------------
(* AnimationController.typeWriter(element, texts, speed, deleteSpeed, pause) *)

\* the closure typeWriter makes: its variables, the sink and the host's timers
\* (cb names the callback of a timer: type, or the one that ends the hold)
NewTypeWriter(element, texts, speed, delSpeed, hold) ==
    [ element     |-> element,
      textContent |-> << >>,
      texts       |-> texts,
      speed       |-> speed,
      deleteSpeed |-> delSpeed,
      pause       |-> hold,
      textIndex   |-> 0,
      charIndex   |-> 0,
      isDeleting  |-> FALSE,
      timers      |-> {} ]

\* setTimeout(callback, delay); the handle is dropped
tw_setTimeout(s, cb, delay) ==
    [s EXCEPT !.timers =
        @ \cup {[id |-> FreshId(s.timers, NoTimer), rem |-> delay, cb |-> cb]}]

\* currentSpeed that is the typing speed in both directions
currentSpeedAlwaysSpeed(s) == s.speed

\* const currentSpeed = isDeleting ? deleteSpeed : speed
currentSpeed(s) == IF s.isDeleting THEN s.deleteSpeed ELSE s.speed

\* the closure's type()
tw_type(s) ==
    LET currentText == s.texts[s.textIndex + 1]
    IN  IF ~s.isDeleting
        THEN LET s1 == [s EXCEPT
                          !.textContent = substring(currentText, 0, s.charIndex + 1),
                          !.charIndex = @ + 1]
             IN  IF s1.charIndex = Len(currentText)
                 THEN tw_setTimeout(s1, "hold", s.pause)
                 ELSE tw_setTimeout(s1, "type", currentSpeed(s1))
        ELSE LET s1 == [s EXCEPT
                          !.textContent = substring(currentText, 0, s.charIndex - 1),
                          !.charIndex = @ - 1]
                 s2 == IF s1.charIndex = 0
                       THEN [s1 EXCEPT !.isDeleting = FALSE,
                                       !.textIndex = (@ + 1) % Len(s.texts)]
                       ELSE s1
             IN  tw_setTimeout(s2, "type", currentSpeed(s2))

\* () => { isDeleting = true; type(); }
tw_hold(s) == tw_type([s EXCEPT !.isDeleting = TRUE])

typeWriter(element, texts, speed, delSpeed, hold) ==
    LET new == NewTypeWriter(element, texts, speed, delSpeed, hold)
    IN  IF ~element \/ Len(texts) = 0 THEN new ELSE tw_type(new)

\* a typeWriter and a TypingEffect with loop: true, made with the same texts
\* and delays and left to their timers under one clock; every write to a sink
\* is on record with the time since that sink's last write
NoPairLog == [te |-> << >>, tw |-> << >>, sinceTe |-> 0, sinceTw |-> 0]

TWIdle ==
    /\ tw = NewTypeWriter(FALSE, << >>, typeSpeed, deleteSpeed, pauseTime)
    /\ plog = NoPairLog

PairInit ==
    /\ \E texts \in PairLists :
          /\ te = init(NewTypingEffect(TRUE, texts, TRUE))
          /\ tw = typeWriter(TRUE, texts, typeSpeed, deleteSpeed, pauseTime)
    /\ plog = [te |-> << [after |-> 0, text |-> te.textContent] >>,
               tw |-> << [after |-> 0, text |-> tw.textContent] >>,
               sinceTe |-> 0, sinceTw |-> 0]
    /\ hidden = FALSE
    /\ lastOp = "new"
    /\ pre = Found(NewTypingEffect(FALSE, << >>, FALSE))
    /\ hist = << >>

\* one time unit passes; due timers fire first
PairAdvance ==
    /\ te.timers # {} \/ tw.timers # {}
    /\ \A t \in te.timers \cup tw.timers : t.rem > 0
    /\ te' = [te EXCEPT !.timers = {[t EXCEPT !.rem = @ - 1] : t \in @}]
    /\ tw' = [tw EXCEPT !.timers = {[t EXCEPT !.rem = @ - 1] : t \in @}]
    /\ plog' = [plog EXCEPT !.sinceTe = @ + 1, !.sinceTw = @ + 1]
    /\ pre' = Found(te)
    /\ lastOp' = "advance"
    /\ UNCHANGED <<hidden, hist, dbVars, th, wrapper, mlVars, pc, cc, app>>

\* a due timer of the TypingEffect fires
PairTickTE ==
    /\ Len(plog.te) < MaxDisplays
    /\ \E t \in te.timers :
          /\ t.rem = 0
          /\ te' = type(Call([te EXCEPT !.timers = @ \ {t}]))
    /\ plog' = [plog EXCEPT
                  !.te = Append(@, [after |-> plog.sinceTe, text |-> te'.textContent]),
                  !.sinceTe = 0]
    /\ pre' = Found(te)
    /\ lastOp' = "tick"
    /\ UNCHANGED <<tw, hidden, hist, dbVars, th, wrapper, mlVars, pc, cc, app>>

\* a due timer of the typeWriter fires
PairTickTW ==
    /\ Len(plog.tw) < MaxDisplays
    /\ \E t \in tw.timers :
          /\ t.rem = 0
          /\ LET s == [tw EXCEPT !.timers = @ \ {t}]
             IN  tw' = IF t.cb = "hold" THEN tw_hold(s) ELSE tw_type(s)
    /\ plog' = [plog EXCEPT
                  !.tw = Append(@, [after |-> plog.sinceTw, text |-> tw'.textContent]),
                  !.sinceTw = 0]
    /\ UNCHANGED <<teVars, hist, dbVars, th, wrapper, mlVars, pc, cc, app>>

----------------------------------------------------------------------------
(* ProjectsController: the filter of the project gallery *)

\* new ProjectsController() over cards with the given data-category values;
\* active is the set of buttons the markup marks active (named by their
\* data-filter), timers the callbacks filterProjects has pending
NewProjectsController(categories, markedActive) ==
    [ categories    |-> categories,
      currentFilter |-> "all",
      isAnimating   |-> FALSE,
      display       |-> [i \in 1..Len(categories) |-> ""],
      opacity       |-> [i \in 1..Len(categories) |-> ""],
      active        |-> markedActive,
      timers        |-> {},
      last          |-> [op |-> "new", filter |-> "all"] ]   \* ghost

\* setTimeout(callback, delay) for a callback about one card (0 for all of
\* them) and one filter; the handle is dropped
pc_setTimeout(s, cb, card, filter, delay) ==
    [s EXCEPT !.timers =
        @ \cup {[rem |-> delay, cb |-> cb, card |-> card, filter |-> filter]}]

RECURSIVE hideAll(_, _, _)
\* this.projectCards.forEach((card, index) => setTimeout(hide, index * 50))
hideAll(s, filter, i) ==
    IF i > Len(s.categories) THEN s
    ELSE hideAll(pc_setTimeout(s, "hide", i, filter, (i - 1) * hideStep),
                 filter, i + 1)

\* filterProjects past its guard
filterProjectsUnguarded(s, filter) ==
    LET s1 == [s EXCEPT !.isAnimating = TRUE, !.currentFilter = filter]
    IN  pc_setTimeout(hideAll(s1, filter, 1), "show", 0, filter,
                      Len(s.categories) * hideStep + showExtra)

\* filterProjects that refuses a request only while the animation runs
filterProjectsChecksFlagOnly(s, filter) ==
    IF s.isAnimating THEN s ELSE filterProjectsUnguarded(s, filter)

filterProjects(s, filter) ==
    IF s.isAnimating \/ s.currentFilter = filter THEN s
    ELSE filterProjectsUnguarded(s, filter)

updateActiveFilter(s, activeButton) == [s EXCEPT !.active = {activeButton}]

\* the click listener of the button with data-filter = button
click(s, button) == updateActiveFilter(filterProjects(s, button), button)

shouldShow(category, filter) == filter = "all" \/ category = filter

\* the cards before card i that are visible
VisibleBefore(display, i) ==
    Cardinality({j \in 1..(i - 1) : display[j] # "none"})

\* the callback "Show filtered cards after hide animation"
showFiltered(s, filter) ==
    LET display == [i \in 1..Len(s.categories) |->
                       IF shouldShow(s.categories[i], filter)
                       THEN "block" ELSE "none"]
        reveals == {[rem |-> VisibleBefore(display, i) * revealStep,
                     cb |-> "reveal", card |-> i, filter |-> filter] :
                       i \in {j \in 1..Len(display) : display[j] # "none"}}
    IN  [s EXCEPT !.display = display,
                  !.timers = @ \cup reveals,
                  !.isAnimating = FALSE]

\* the callback of a timer
pc_run(s, t) ==
    IF t.cb = "hide" THEN [s EXCEPT !.opacity[t.card] = "0"]
    ELSE IF t.cb = "reveal" THEN [s EXCEPT !.opacity[t.card] = "1"]
    ELSE showFiltered(s, t.filter)

PCIdle == pc = NewProjectsController(<< >>, {})

PCInit ==
    \E categories \in CardLists, markedActive \in {{}} \cup {{f} : f \in Filters} :
        pc = NewProjectsController(categories, markedActive)

PcStep(op, filter, s) ==
    /\ pc' = [s EXCEPT !.last = [op |-> op, filter |-> filter]]
    /\ UNCHANGED <<teVars, hist, dbVars, th, wrapper, mlVars, tw, plog, cc, app>>

\* a filter button is clicked
PcClick == \E button \in Filters : PcStep("click", button, click(pc, button))

\* one time unit passes; a due timer fires first
PcAdvance ==
    /\ pc.timers # {}
    /\ \A t \in pc.timers : t.rem > 0
    /\ PcStep("advance", pc.last.filter,
              [pc EXCEPT !.timers = {[t EXCEPT !.rem = @ - 1] : t \in @}])

\* a due timer fires: the host drops it and runs its callback
PcFire ==
    \E t \in pc.timers :
        /\ t.rem = 0
        /\ PcStep(t.cb, t.filter, pc_run([pc EXCEPT !.timers = @ \ {t}], t))

----------------------------------------------------------------------------
(* ContactController: validation and submission of the contact form *)

\* a field passes validateField when its trimmed value is there and matches
\* the field's pattern and length rules: "" stands for a missing value,
\* "bad" for one that breaks a pattern or length rule, "good" for a valid one
FieldValid(value) == value = "good"

NoValues == [f \in Fields |-> ""]
NoDraft == [saved |-> FALSE, values |-> NoValues]
Draft(values) == [saved |-> TRUE, values |-> values]

\* new ContactController() over a form with the given field values; pending
\* are the submissions in flight (the timers of submitForm), draft is the
\* 'contactForm' entry of the storage (NoDraft when there is none)
NewContactController(hasButton, values, draft) ==
    [ hasButton |-> hasButton,          \* is there a submit button
      values    |-> values,
      errors    |-> {},                 \* the fields that show an error
      disabled  |-> FALSE,              \* submitButton.disabled
      pending   |-> {},
      draft     |-> draft,
      note      |-> "none",             \* the type of the last notification
      last      |-> "new" ]             \* ghost: the last event

\* loadSavedFormData(): a saved value replaces a field's value unless it is ''
loadSavedFormData(s) ==
    IF ~s.draft.saved THEN s
    ELSE [s EXCEPT !.values = [f \in Fields |->
                                  IF s.draft.values[f] # ""
                                  THEN s.draft.values[f] ELSE @[f]]]

saveFormData(s) == [s EXCEPT !.draft = Draft(s.values)]

clearSavedFormData(s) == [s EXCEPT !.draft = NoDraft]

\* validateField(field, true) on every field: errors shown and cleared
validateForm(s) == [s EXCEPT !.errors = {f \in Fields : ~FieldValid(s.values[f])}]

showNotification(s, kind) == [s EXCEPT !.note = kind]

setSubmitting(s, isSubmitting) ==
    IF ~s.hasButton THEN s ELSE [s EXCEPT !.disabled = isSubmitting]

\* submitForm(formData): the promise is pending until its timer fires
submitForm(s) ==
    [s EXCEPT !.pending =
        @ \cup {[id |-> FreshId(s.pending, NoTimer), rem |-> submitDelay]}]

\* form.reset() and the errors cleared
resetForm(s) == [s EXCEPT !.values = NoValues, !.errors = {}]

handleSubmissionSuccess(s) ==
    clearSavedFormData(resetForm(showNotification(s, "success")))

\* handleSubmissionError that also resets the form
handleSubmissionErrorResetsForm(s) == resetForm(showNotification(s, "error"))

handleSubmissionError(s) == showNotification(s, "error")

\* handleFormSubmit up to its await
handleFormSubmit(s) ==
    LET s1 == validateForm(s)
    IN  IF s1.errors # {} THEN showNotification(s1, "error")
        ELSE submitForm(setSubmitting(s1, TRUE))

\* handleFormSubmit from its await on, for the submission t that settles
settle(s, t, resolved) ==
    LET s1 == [s EXCEPT !.pending = @ \ {t}]
        s2 == IF resolved THEN handleSubmissionSuccess(s1)
              ELSE handleSubmissionError(s1)
    IN  setSubmitting(s2, FALSE)

CCIdle == cc = NewContactController(FALSE, NoValues, NoDraft)

\* new ContactController() -> init() -> initializeFormFields()
CCInit ==
    \E hasButton \in BOOLEAN, draft \in {NoDraft} \cup {Draft(v) : v \in [Fields -> Values]} :
        cc = loadSavedFormData(NewContactController(hasButton, NoValues, draft))

CcStep(op, s) ==
    /\ cc' = [s EXCEPT !.last = op]
    /\ UNCHANGED <<teVars, hist, dbVars, th, wrapper, mlVars, tw, plog, pc, app>>

\* the form's submit event; a disabled submit button lets no submit event of
\* the user through
CcSubmit ==
    /\ ~cc.disabled
    /\ Cardinality(cc.pending) < MaxPending
    /\ CcStep("submit", handleFormSubmit(cc))

\* Ctrl+Enter while the focus is in the form
CcCtrlEnter ==
    /\ Cardinality(cc.pending) < MaxPending
    /\ CcStep("ctrlEnter", handleFormSubmit(cc))

\* the user edits a field: the input listener clears the field's error
CcInput ==
    \E f \in Fields, v \in Values :
        /\ cc.values[f] # v
        /\ CcStep("input", [cc EXCEPT !.values[f] = v, !.errors = @ \ {f}])

\* saveFormData()
CcSave == CcStep("save", saveFormData(cc))

\* one time unit passes; a due timer fires first
CcAdvance ==
    /\ cc.pending # {}
    /\ \A t \in cc.pending : t.rem > 0
    /\ CcStep("advance",
              [cc EXCEPT !.pending = {[t EXCEPT !.rem = @ - 1] : t \in @}])

\* the timer of a submission fires: Math.random() settles the promise
CcSettle ==
    \E t \in cc.pending, resolved \in BOOLEAN :
        /\ t.rem = 0
        /\ CcStep(IF resolved THEN "resolve" ELSE "reject", settle(cc, t, resolved))

----------------------------------------------------------------------------
(* utils.storage and PortfolioApp: start-up and the theme system *)

\* an entry of localStorage: none, the JSON text of a string, or a text that
\* is not JSON (written by something other than storage.set)
NoItem == [kind |-> "none", value |-> ""]
\* JSON.stringify(value) of a string
JSONstringify(value) == [kind |-> "json", value |-> value]
RawItem(text) == [kind |-> "raw", value |-> text]

\* storage.get(key, defaultValue): item ? JSON.parse(item) : defaultValue,
\* and defaultValue when JSON.parse throws
storage_get(item, defaultValue) ==
    IF item.kind = "json" THEN item.value ELSE defaultValue

\* the three steps of start-up, in the order onDOMReady runs them
StartUpSteps ==
    {"initializeComponents", "setupGlobalEventListeners", "startAnimations"}

\* new PortfolioApp() in a document with the given readyState, 'theme' entry
\* and system colour scheme; canWrite: localStorage.setItem does not throw
NewPortfolioApp(readyState, item, canWrite, systemDark) ==
    [ readyState  |-> readyState,
      phase       |-> "constructed",   \* constructed, waiting, preloading, started
      images      |-> [i \in 1..MaxImages |-> "pending"],
      completed   |-> {},               \* ghost: the steps that returned
      hideCalls   |-> 0,                \* ghost: calls of hideLoadingScreen
      isLoaded    |-> FALSE,
      screen      |-> "none",           \* the loading screen: none, shown, fading, removed
      timers      |-> {},
      item        |-> item,
      canWrite    |-> canWrite,
      systemDark  |-> systemDark,
      dataTheme   |-> "none",           \* the data-theme attribute
      listening   |-> FALSE,            \* the change listener is registered
      startedWithoutTheme |-> item.kind = "none",   \* ghost
      last        |-> "new" ]           \* ghost: the last event

\* storage.set('theme', theme)
storage_set(s, theme) ==
    IF s.canWrite THEN [s EXCEPT !.item = JSONstringify(theme)] ELSE s

setTheme(s, theme) == storage_set([s EXCEPT !.dataTheme = theme], theme)

\* the change listener of the prefers-color-scheme media query
onSchemeChange(s, matches) ==
    IF storage_get(s.item, "null") = "null"
    THEN setTheme(s, IF matches THEN "dark" ELSE "light")
    ELSE s

\* initializeThemeSystem(); hasMatchMedia: window.matchMedia is there
\* (the call throws a TypeError when it is not)
initializeThemeSystem(s, hasMatchMedia) ==
    LET s1 == setTheme(s, storage_get(s.item, "light"))
    IN  IF hasMatchMedia THEN [s1 EXCEPT !.listening = TRUE] ELSE s1

showLoadingScreen(s) == [s EXCEPT !.screen = "shown"]

hideLoadingScreen(s) ==
    LET s1 == [s EXCEPT !.hideCalls = @ + 1]
    IN  IF s.screen \in {"shown", "fading"}
        THEN [s1 EXCEPT !.screen = "fading",
                        !.timers = @ \cup {[id |-> FreshId(s.timers, NoTimer),
                                            rem |-> removeDelay]}]
        ELSE s1

\* the catch callback that only logs the error
onStartUpErrorOnlyLogs(s) == s

\* .catch(error => { console.error(...); this.hideLoadingScreen(); })
onStartUpError(s) == hideLoadingScreen(s)

\* the .then callback of onDOMReady; thrower names the call that throws
\* ("none" when none does)
onPreloaded(s, thrower) ==
    LET s0 == [s EXCEPT !.phase = "started"]
    IN  IF thrower = "initializeBackToTop" THEN onStartUpError(s0)
        ELSE IF thrower = "matchMedia"
        THEN onStartUpError(initializeThemeSystem(s0, FALSE))
        ELSE
        LET s1 == [initializeThemeSystem(s0, TRUE)
                      EXCEPT !.completed = @ \cup {"initializeComponents"}]
        IN  IF thrower = "setupGlobalEventListeners" THEN onStartUpError(s1)
            ELSE
            LET s2 == [s1 EXCEPT !.completed = @ \cup {"setupGlobalEventListeners"}]
            IN  IF thrower = "startAnimations" THEN onStartUpError(s2)
                ELSE [hideLoadingScreen(
                         [s2 EXCEPT !.completed = @ \cup {"startAnimations"}])
                        EXCEPT !.isLoaded = TRUE]

Throwers ==
    {"none", "initializeBackToTop", "matchMedia", "setupGlobalEventListeners",
     "startAnimations"}

\* onDOMReady(): preloadAssets() starts loading the images
onDOMReady(s) == [s EXCEPT !.phase = "preloading"]

\* init()
app_init(s) ==
    LET s1 == showLoadingScreen(s)
    IN  IF s.readyState = "loading" THEN [s1 EXCEPT !.phase = "waiting"]
        ELSE onDOMReady(s1)

\* Promise.all over the images has settled: every image is loaded, or one
\* has failed (preloadAssets catches the rejection)
PreloadSettled(images) ==
    \/ \A i \in 1..Len(images) : images[i] = "loaded"
    \/ \E i \in 1..Len(images) : images[i] = "failed"

AppIdle == app = NewPortfolioApp("loading", NoItem, FALSE, FALSE)

AppInit ==
    \E readyState \in {"loading", "interactive"},
       item \in {NoItem, JSONstringify("light"), JSONstringify("dark"), RawItem("dark")},
       canWrite \in BOOLEAN, systemDark \in BOOLEAN :
        app = app_init(NewPortfolioApp(readyState, item, canWrite, systemDark))

AppStep(op, s) ==
    /\ app' = [s EXCEPT !.last = op]
    /\ UNCHANGED <<teVars, hist, dbVars, th, wrapper, mlVars, tw, plog, pc, cc>>

\* the document's DOMContentLoaded event
AppDOMContentLoaded ==
    /\ app.phase = "waiting"
    /\ AppStep("DOMContentLoaded", onDOMReady([app EXCEPT !.readyState = "interactive"]))

\* an image loads or fails; when that settles preloadAssets() the .then
\* callback runs before any other event
AppImage ==
    /\ app.phase \in {"preloading", "started"}
    /\ \E i \in 1..MaxImages, outcome \in {"loaded", "failed"}, thrower \in Throwers :
          /\ app.images[i] = "pending"
          /\ LET s == [app EXCEPT !.images[i] = outcome]
             IN  IF app.phase = "preloading" /\ PreloadSettled(s.images)
                 THEN AppStep("preloaded", onPreloaded(s, thrower))
                 ELSE thrower = "none" /\ AppStep("image", s)

\* the system colour scheme changes
AppSchemeChange ==
    LET s == [app EXCEPT !.systemDark = ~@]
    IN  AppStep("schemeChange",
                IF app.listening THEN onSchemeChange(s, s.systemDark) ELSE s)

\* one time unit passes; a due timer fires first
AppAdvance ==
    /\ app.timers # {}
    /\ \A t \in app.timers : t.rem > 0
    /\ AppStep("advance",
               [app EXCEPT !.timers = {[t EXCEPT !.rem = @ - 1] : t \in @}])

\* the timer of hideLoadingScreen fires: loadingScreen.remove()
AppFire ==
    \E t \in app.timers :
        /\ t.rem = 0
        /\ AppStep("remove", [app EXCEPT !.timers = @ \ {t}, !.screen = "removed"])

UIIdle == TWIdle /\ PCIdle /\ CCIdle /\ AppIdle

----------------------------------------------------------------------------
(* Specifications *)

Init == TEInit /\ DBIdle /\ THIdle /\ MLIdle /\ UIIdle /\ wrapper = "none"

Spec == Init /\ [][Next]_vars

InitDebounce == TEIdle /\ DBInit /\ THIdle /\ MLIdle /\ UIIdle /\ wrapper = "debounce"

NextDebounce ==
    \/ DbCall
    \/ DbFire
    \/ DbAdvance

SpecDebounce == InitDebounce /\ [][NextDebounce]_vars

InitRun == RunInit /\ DBIdle /\ THIdle /\ MLIdle /\ UIIdle /\ wrapper = "none"

NextRun ==
    \/ RunAdvance
    \/ RunTick

SpecRun == InitRun /\ [][NextRun]_vars

NextLive ==
    \/ RunAdvance
    \/ LiveTick

\* the host runs a due timer and its clock does not stop
SpecLive == InitRun /\ [][NextLive]_vars /\ WF_vars(NextLive)

InitMultiLine == TEIdle /\ DBIdle /\ THIdle /\ MLInit /\ UIIdle /\ wrapper = "none"

NextMultiLine ==
    \/ MlAdvance
    \/ MlTick
    \/ MlStart
    \/ MlStop
    \/ MlReset
    \/ MlDestroy

SpecMultiLine == InitMultiLine /\ [][NextMultiLine]_vars

\* the owner never calls reset()
NextNoReset ==
    \/ MlAdvance
    \/ MlTick
    \/ MlStart
    \/ MlStop
    \/ MlDestroy

SpecNoReset == InitMultiLine /\ [][NextNoReset]_vars

InitLineRun == TEIdle /\ DBIdle /\ THIdle /\ LineRunInit /\ UIIdle /\ wrapper = "none"

NextLineRun ==
    \/ LineRunAdvance
    \/ LineRunTick

SpecLineRun == InitLineRun /\ [][NextLineRun]_vars

\* the host runs a due timer and its clock does not stop
FairLineRun == InitLineRun /\ [][NextLineRun]_vars /\ WF_vars(NextLineRun)

InitPair ==
    /\ PairInit /\ DBIdle /\ THIdle /\ MLIdle /\ PCIdle /\ CCIdle /\ AppIdle
    /\ wrapper = "none"

NextPair ==
    \/ PairAdvance
    \/ PairTickTE
    \/ PairTickTW

SpecPair == InitPair /\ [][NextPair]_vars

InitProjects ==
    /\ TEIdle /\ DBIdle /\ THIdle /\ MLIdle /\ TWIdle /\ PCInit /\ CCIdle
    /\ AppIdle
    /\ wrapper = "none"

NextProjects ==
    \/ PcClick
    \/ PcAdvance
    \/ PcFire

SpecProjects == InitProjects /\ [][NextProjects]_vars

\* the host runs a due callback and lets time pass; clicks are up to the user
FairProjects ==
    InitProjects /\ [][NextProjects]_vars /\ WF_vars(PcAdvance \/ PcFire)

InitContact ==
    /\ TEIdle /\ DBIdle /\ THIdle /\ MLIdle /\ TWIdle /\ PCIdle /\ CCInit
    /\ AppIdle
    /\ wrapper = "none"

NextContact ==
    \/ CcSubmit
    \/ CcCtrlEnter
    \/ CcInput
    \/ CcSave
    \/ CcAdvance
    \/ CcSettle

SpecContact == InitContact /\ [][NextContact]_vars

InitApp ==
    /\ TEIdle /\ DBIdle /\ THIdle /\ MLIdle /\ TWIdle /\ PCIdle /\ CCIdle
    /\ AppInit
    /\ wrapper = "none"

NextApp ==
    \/ AppDOMContentLoaded
    \/ AppImage
    \/ AppSchemeChange
    \/ AppAdvance
    \/ AppFire

SpecApp == InitApp /\ [][NextApp]_vars

\* the host fires DOMContentLoaded, every image request ends in load or
\* error, due timers run; changes of the colour scheme are up to the system
FairApp ==
    InitApp /\ [][NextApp]_vars
        /\ WF_vars(AppDOMContentLoaded \/ AppImage \/ AppAdvance \/ AppFire)

InitThrottle == TEIdle /\ DBIdle /\ THInit /\ MLIdle /\ UIIdle /\ wrapper = "throttle"

NextThrottle ==
    \/ ThCall
    \/ ThFire
    \/ ThAdvance

SpecThrottle == InitThrottle /\ [][NextThrottle]_vars

\* a host that made one wrapper, of either kind
InitWrappers == InitDebounce \/ InitThrottle

NextWrappers ==
    \/ wrapper = "debounce" /\ NextDebounce
    \/ wrapper = "throttle" /\ NextThrottle

SpecWrappers == InitWrappers /\ [][NextWrappers]_vars

----------------------------------------------------------------------------
(* Claims about TypingEffect *)

\* the text the object is working on, when there is one
CurrentText == te.texts[te.currentTextIndex + 1]
Position(s) == <<s.currentTextIndex, s.currentCharIndex, s.isDeleting>>
\* constructed with a sink and a non-empty list
Initialised == te.element /\ Len(te.texts) > 0

\* C1: at most one tick timer of a TypingEffect is pending in every state
\* reachable by start, ticks, pause, resume, reset, changeTexts and the two
\* visibilitychange listeners.
AtMostOnePendingTimer == Cardinality(te.timers) <= 1

\* C2: resume() on a machine that is active (not paused, a tick pending)
\* changes neither the position, nor the displayed text, nor the pending timers.
ResumeOnActiveIsNoOp ==
    [][(lastOp' = "resume" /\ ~te.isPaused /\ te.timers # {})
          => /\ Position(te') = Position(te)
             /\ te'.textContent = te.textContent
             /\ te'.timers = te.timers]_vars

\* C3: once type() has taken the loop=false return and nothing is pending,
\* pause() and resume() (alone or from the visibility listeners) schedule no
\* tick and leave the displayed text as it is.
StoppedIsTerminal ==
    [][(te.stopped /\ te.timers = {}
            /\ lastOp' \in {"pause", "resume", "hide", "show"})
          => /\ te'.timers = {}
             /\ te'.textContent = te.textContent]_vars

\* C4: after destroy() has cancelled the timer and cleared the sink, timer
\* expiries, pause() and resume() never write the sink and never schedule a tick.
DestroyIsTerminal ==
    [][(te.destroyed /\ te.timers = {}
            /\ lastOp' \in {"tick", "pause", "resume", "hide", "show"})
          => /\ te'.timers = {}
             /\ te'.textContent = te.textContent]_vars

\* C5: when resume() returns on a paused machine, the displayed text and the
\* position (index, count, direction) are those the pause preserved.
ResumeKeepsDisplay ==
    [][(lastOp' = "resume" /\ te.isPaused /\ Initialised)
          => /\ te'.textContent = te.textContent
             /\ Position(te') = Position(te)]_vars

\* C6: pause() on a machine that is not paused cancels the timer the object
\* holds and leaves text index, character count, direction and displayed text
\* unchanged; no timer is added.
PausePreservesPosition ==
    [][(lastOp' = "pause" /\ ~te.isPaused)
          => /\ Position(te') = Position(te)
             /\ te'.textContent = te.textContent
             /\ te'.isPaused
             /\ te'.timeoutId = NoTimer
             /\ te'.timers = {t \in te.timers : t.id # te.timeoutId}]_vars

\* C6 witness: pause() arrived during the hold after a full text, with the one
\* tick pending, and cancelled it.
PausedDuringHold ==
    /\ lastOp = "pause"
    /\ ~pre.isPaused /\ pre.pending = 1
    /\ Initialised
    /\ te.isPaused /\ te.timers = {}
    /\ te.isDeleting /\ te.currentCharIndex = Len(CurrentText)
    /\ te.textContent = CurrentText

\* C7: pause() on a paused machine leaves the whole object, its sink and its
\* timers as they were.
PauseIdempotent ==
    [][(lastOp' = "pause" /\ te.isPaused) => te' = Call(te)]_vars

\* C7 witness: pause() was called on a machine that was already paused in
\* the middle of a text.
PausedTwice ==
    /\ lastOp = "pause"
    /\ pre.isPaused
    /\ te.isPaused
    /\ te.currentCharIndex > 0

\* C8: with a non-empty list, the text index is within the list, the character
\* count is within the current text, and the displayed text is a prefix of
\* the current text.
PositionInRange ==
    Len(te.texts) > 0 =>
        /\ te.currentTextIndex \in 0..(Len(te.texts) - 1)
        /\ te.currentCharIndex \in 0..Len(CurrentText)
        /\ te.textContent = SubSeq(CurrentText, 1, Len(te.textContent))

----------------------------------------------------------------------------
(* Claims about debounce *)

\* C10: without `immediate`, func is never called inside a wrapper call; each
\* invocation comes `wait` after the last call made before it, with that
\* call's arguments; the only execution scheduled is the one of the last
\* call, `wait` after it; a call followed by another less than `wait` later
\* causes no invocation; the last call of a burst causes exactly one.
DebounceTrailing ==
    ~db.immediate =>
        /\ \A i \in DOMAIN invs :
              /\ ~invs[i].sync
              /\ invs[i].seen \in DOMAIN calls
              /\ invs[i].args = calls[invs[i].seen].args
              /\ invs[i].t = calls[invs[i].seen].t + db.wait
        /\ \A t \in db.timers :
              /\ db.timeout = t.id
              /\ t.args = calls[Len(calls)].args
              /\ t.rem = calls[Len(calls)].t + db.wait - now
        /\ \A i, j \in DOMAIN invs : invs[i].seen = invs[j].seen => i = j
        /\ \A k \in DOMAIN calls :
              (k < Len(calls) /\ calls[k + 1].t < calls[k].t + db.wait)
                 => \A i \in DOMAIN invs : invs[i].seen # k
        /\ \A k \in DOMAIN calls :
              ( /\ now > calls[k].t + db.wait
                /\ k = Len(calls) \/ calls[k + 1].t > calls[k].t + db.wait )
                 => \E i \in DOMAIN invs : invs[i].seen = k

\* C10 witness: wait = 5 (50 ms), calls at t = 0, 1, 2 (0, 10, 20 ms) and one
\* invocation, at t = 7 (70 ms), with the arguments of the call at t = 2.
DebounceBurstOfThree ==
    /\ ~db.immediate /\ db.wait = 5
    /\ Len(calls) = 3
    /\ calls[1].t = 0 /\ calls[2].t = 1 /\ calls[3].t = 2
    /\ calls[3].args # calls[1].args /\ calls[3].args # calls[2].args
    /\ invs = << [t |-> 7, args |-> calls[3].args, seen |-> 3, sync |-> FALSE] >>

----------------------------------------------------------------------------
(* Claims about throttle, immediate debounce and the wrappers' timers *)

\* the invocations call k caused
InvsOf(k) == {i \in DOMAIN invs : invs[i].seen = k}
\* call k came while the cooldown of an earlier invocation was open / after
\* every earlier cooldown had ended
InCooldown(k) ==
    \E i \in DOMAIN invs :
        invs[i].seen < k /\ calls[k].t < invs[i].t + th.limit
Quiet(k) ==
    \A i \in DOMAIN invs :
        invs[i].seen < k => calls[k].t > invs[i].t + th.limit

\* C11: func is only invoked inside a wrapper call, at the time and with the
\* arguments of that call, and never by the cooldown timer; a call in a quiet
\* period invokes it once; a call during the cooldown is lost for good.
ThrottleDrops ==
    /\ \A i \in DOMAIN invs :
          /\ invs[i].sync
          /\ invs[i].seen \in DOMAIN calls
          /\ invs[i].t = calls[invs[i].seen].t
          /\ invs[i].args = calls[invs[i].seen].args
    /\ \A k \in DOMAIN calls :
          /\ Cardinality(InvsOf(k)) <= 1
          /\ Quiet(k) => InvsOf(k) # {}
          /\ InCooldown(k) => InvsOf(k) = {}

\* C11 witness: limit = 5 (50 ms), calls at t = 0, 1, 6 (0, 10, 60 ms); func
\* ran for the first and the third call only, and time has passed since.
ThrottleZeroTenSixty ==
    /\ th.limit = 5
    /\ Len(calls) = 3
    /\ calls[1].t = 0 /\ calls[2].t = 1 /\ calls[3].t = 6
    /\ calls[2].args # calls[1].args
    /\ invs = << [t |-> 0, args |-> calls[1].args, seen |-> 1, sync |-> TRUE],
                 [t |-> 6, args |-> calls[3].args, seen |-> 3, sync |-> TRUE] >>
    /\ now = 8

\* C12: any two invocations of func are at least `limit` apart, and there
\* are never more invocations than calls.
ThrottleSpacing ==
    /\ \A i, j \in DOMAIN invs : i < j => invs[j].t - invs[i].t >= th.limit
    /\ Len(invs) <= Len(calls)

\* C12 witness: two invocations exactly `limit` apart, with a dropped call
\* between them.
ThrottleTwoInvocations ==
    /\ Len(calls) = 3
    /\ Len(invs) = 2
    /\ invs[2].t = invs[1].t + th.limit
    /\ invs[1].seen = 1 /\ invs[2].seen = 3

\* C13: with `immediate`, func is only invoked inside a wrapper call, with
\* that call's arguments: by the first call, and by a call that comes more
\* than `wait` after the call before it; a call less than `wait` after the
\* call before it invokes nothing and re-arms the window; the timer invokes
\* nothing when the window ends.
DebounceImmediate ==
    db.immediate =>
        /\ \A i \in DOMAIN invs :
              /\ invs[i].sync
              /\ invs[i].seen \in DOMAIN calls
              /\ invs[i].t = calls[invs[i].seen].t
              /\ invs[i].args = calls[invs[i].seen].args
        /\ \A t \in db.timers :
              /\ db.timeout = t.id
              /\ t.rem = calls[Len(calls)].t + db.wait - now
        /\ \A k \in DOMAIN calls :
              /\ Cardinality(InvsOf(k)) <= 1
              /\ (k = 1 \/ (k > 1 /\ calls[k].t > calls[k - 1].t + db.wait))
                    => InvsOf(k) # {}
              /\ (k > 1 /\ calls[k].t < calls[k - 1].t + db.wait)
                    => InvsOf(k) = {}

\* C13 witness: immediate, wait = 2: calls at t = 0, 1, 4; func ran at once
\* for the first call, not for the second, not when the window ended at
\* t = 3, and at once for the third.
DebounceImmediateTwoBursts ==
    /\ db.immediate /\ db.wait = 2
    /\ Len(calls) = 3
    /\ calls[1].t = 0 /\ calls[2].t = 1 /\ calls[3].t = 4
    /\ invs = << [t |-> 0, args |-> calls[1].args, seen |-> 1, sync |-> TRUE],
                 [t |-> 4, args |-> calls[3].args, seen |-> 3, sync |-> TRUE] >>
    /\ now = 8

\* C14: at most one timer made by a debounce wrapper, and at most one made
\* by a throttle wrapper, is pending.
OneTimerPerWrapper ==
    /\ Cardinality(db.timers) <= 1
    /\ Cardinality(th.timers) <= 1

\* C14 witness: a debounce wrapper called three times within one window, with
\* its one timer pending.
ThreeCallsOneTimer ==
    /\ wrapper = "debounce"
    /\ Len(calls) = 3
    /\ calls[3].t < calls[1].t + db.wait
    /\ Cardinality(db.timers) = 1

\* a machine the constructor left uninitialised: no sink or an empty list,
\* nothing shown, nothing pending, position at the start
Inert(s) ==
    /\ ~s.element \/ Len(s.texts) = 0
    /\ s.timers = {}
    /\ s.textContent = << >>
    /\ Position(s) = <<0, 0, FALSE>>

\* C15: a TypingEffect constructed with an empty list or without a sink stays
\* inert under pause(), resume() and the visibilitychange listener: no call
\* fails, no timer is scheduled and the position does not move.
InertStaysInert ==
    [][(Inert(te) /\ lastOp' \in {"pause", "resume", "hide", "show"})
          => /\ ~te'.threw
             /\ Inert(te')]_vars

\* C16: the first timer that fires after reset(), with no call in between,
\* finds nothing to do: the sink still shows the empty text and the position
\* is still text 0, count 0, typing.
ResetSilencesTicks ==
    [][(lastOp = "reset" /\ Initialised /\ lastOp' = "tick")
          => /\ te'.textContent = << >>
             /\ Position(te') = <<0, 0, FALSE>>]_vars

\* what reset() itself leaves behind on a machine with a sink
ResetClearsState ==
    [][(lastOp' = "reset" /\ te.element)
          => /\ te'.textContent = << >>
             /\ Position(te') = <<0, 0, FALSE>>
             /\ ~te'.isPaused
             /\ te'.timeoutId = NoTimer]_vars

\* the tick left exactly one new timer behind, due after d, and the object
\* holds its handle
Scheduled(d) ==
    /\ te'.timeoutId # NoTimer
    /\ [id |-> te'.timeoutId, rem |-> d] \in te'.timers
    /\ Cardinality(te'.timers) = Cardinality(te.timers)

\* C17: in an undisturbed run every tick taken in typing mode lengthens the
\* displayed prefix of the current text by exactly one character and
\* schedules the next tick after typeSpeed; the tick that completes the text
\* schedules it after pauseTime and switches to deleting.
TypingTickAppends ==
    [][(lastOp' = "tick" /\ ~te.isDeleting)
          => /\ Len(te'.textContent) = Len(te.textContent) + 1
             /\ te'.textContent = SubSeq(CurrentText, 1, Len(te'.textContent))
             /\ te'.currentTextIndex = te.currentTextIndex
             /\ IF te'.textContent = CurrentText
                THEN te'.isDeleting /\ Scheduled(pauseTime)
                ELSE ~te'.isDeleting /\ Scheduled(typeSpeed)]_vars

\* a tick of a machine that has a sink and texts, is deleting and is not
\* paused took the count to n and showed the prefix of that length
DeletedTo(n) ==
    /\ te'.currentCharIndex = n
    /\ te'.textContent = SubSeq(CurrentText, 1, n)
    /\ te.textContent = SubSeq(CurrentText, 1, n + 1)
          => Len(te'.textContent) = Len(te.textContent) - 1

DeletingTickOf(s) ==
    /\ lastOp' = "tick"
    /\ s.element
    /\ Len(s.texts) > 0
    /\ s.isDeleting
    /\ ~s.isPaused

\* C18 as stated: a deleting tick shows one character less and schedules the
\* next tick after deleteSpeed; the tick that empties the prefix moves to
\* text (index + 1) mod |texts|, switches to typing and schedules the next
\* tick after typeSpeed.
DeletingTickAlwaysReschedules ==
    [][DeletingTickOf(te)
          => LET n == te.currentCharIndex - 1
             IN  /\ DeletedTo(n)
                 /\ IF n > 0
                    THEN /\ te'.isDeleting
                         /\ te'.currentTextIndex = te.currentTextIndex
                         /\ Scheduled(deleteSpeed)
                    ELSE /\ ~te'.isDeleting
                         /\ te'.currentTextIndex =
                                (te.currentTextIndex + 1) % Len(te.texts)
                         /\ Scheduled(typeSpeed)]_vars

\* C18: a deleting tick shows one character less and schedules the next tick
\* after deleteSpeed; the tick that empties the prefix moves to text
\* (index + 1) mod |texts| and switches to typing, and schedules the next
\* tick after typeSpeed unless loop is off and the index wrapped to 0, when it
\* schedules nothing.
DeletingTickRemoves ==
    [][DeletingTickOf(te)
          => LET n == te.currentCharIndex - 1
             IN  /\ DeletedTo(n)
                 /\ IF n > 0
                    THEN /\ te'.isDeleting
                         /\ te'.currentTextIndex = te.currentTextIndex
                         /\ Scheduled(deleteSpeed)
                    ELSE /\ ~te'.isDeleting
                         /\ te'.currentTextIndex =
                                (te.currentTextIndex + 1) % Len(te.texts)
                         /\ IF ~te.loop /\ te'.currentTextIndex = 0
                            THEN /\ te'.timers \subseteq te.timers
                                 /\ Cardinality(te'.timers) =
                                        Cardinality(te.timers) - 1
                            ELSE Scheduled(typeSpeed)]_vars

\* the second of two texts has just been deleted with loop on: the index is
\* back at 0 and the next tick is due after typeSpeed
WrappedToFirstText ==
    /\ lastOp = "tick"
    /\ Initialised
    /\ ~te.isPaused
    /\ te.loop
    /\ Len(te.texts) = 2
    /\ Position(te) = <<0, 0, FALSE>>
    /\ te.textContent = << >>
    /\ [id |-> te.timeoutId, rem |-> typeSpeed] \in te.timers

\* every text typed in full and then deleted to nothing, once, in list order
FullPass(texts) ==
    [j \in 1..(2 * Len(texts)) |->
        LET i == (j - 1) \div 2
        IN  IF j % 2 = 1
            THEN [ev |-> "typed", text |-> i, shown |-> texts[i + 1]]
            ELSE [ev |-> "deleted", text |-> i, shown |-> << >>]]

IsPrefix(a, b) == Len(a) <= Len(b) /\ a = SubSeq(b, 1, Len(a))

\* C19: with loop off an undisturbed machine types and deletes the texts in
\* list order, each at most once; it has stopped exactly when all of them
\* have been typed and deleted, and then the index is 0, the sink shows the
\* empty text and no tick is pending.
StopsAfterFullPass ==
    /\ te.stopped => ~te.loop
    /\ ~te.loop =>
          /\ IsPrefix(hist, FullPass(te.texts))
          /\ te.stopped <=> hist = FullPass(te.texts)
          /\ te.stopped =>
                /\ te.currentTextIndex = 0
                /\ te.textContent = << >>
                /\ te.timers = {}

StoppedAfterThreeTexts ==
    /\ te.stopped
    /\ Len(te.texts) = 3
    /\ Len(hist) = 6
    /\ hist[1].ev = "typed" /\ hist[1].text = 0
    /\ hist[6].ev = "deleted" /\ hist[6].text = 2

\* C20: in an undisturbed run a tick leaves the sink empty exactly when it is
\* the tick that ends a cycle (the deleting tick that takes the count to 0).
EmptyOnlyAtCycleEnd ==
    [][lastOp' = "tick"
          => (te'.textContent = << >> <=> (te.isDeleting /\ ~te'.isDeleting))]_vars

----------------------------------------------------------------------------
(* Claims about an endless run, the multi-line machine, pause and changeTexts *)

TextPositions == UNION {0..(Len(l) - 1) : l \in RunLists}

\* text i of the list is shown in full, as the text the machine is at
FullyShown(i) ==
    /\ te.currentTextIndex = i
    /\ te.isDeleting
    /\ te.textContent = te.texts[i + 1]

\* C21: with loop on, an undisturbed TypingEffect shows every text of its list
\* in full again and again, and its sink is empty again and again.
CyclesForever ==
    /\ \A i \in TextPositions :
          []<>(te.loop => (i >= Len(te.texts) \/ FullyShown(i)))
    /\ []<>(te.loop => te.textContent = << >>)

\* the multi-line machine has its line elements and has passed its last line
Done == ml.currentLineIndex = Len(ml.lines)
HasSinks == Len(ml.lines) > 0 /\ Len(ml.elements) = Len(ml.lines)
LastLine == Len(ml.lines) - 1
\* the tick about to run finds the last line typed in full
LastLineCompletes ==
    /\ HasSinks
    /\ ml.currentLineIndex = LastLine
    /\ ml.currentCharIndex >= Len(ml.lines[LastLine + 1])
\* the tick left exactly one new timer behind, due after d
MlScheduled(d) ==
    /\ ml'.timeoutId # NoTimer
    /\ [id |-> ml'.timeoutId, rem |-> d] \in ml'.timers
    /\ Cardinality(ml'.timers) = Cardinality(ml.timers)
\* the tick left no new timer behind
MlScheduledNothing ==
    /\ ml'.timers \subseteq ml.timers
    /\ Cardinality(ml'.timers) = Cardinality(ml.timers) - 1

\* C22 as stated: the tick that completes the last line enters Done and
\* creates no timer.
LastLineSchedulesNothing ==
    [][(mlog'.op = "tick" /\ LastLineCompletes)
          => /\ ml'.currentLineIndex = Len(ml.lines)
             /\ MlScheduledNothing]_vars

\* C22: the tick that completes the last line enters Done and schedules one
\* more tick after lineDelay; a tick in Done writes nothing, moves nothing
\* and schedules nothing.
LastLineSchedulesOneIdleTick ==
    [][mlog'.op = "tick"
          => /\ LastLineCompletes
                  => /\ ml'.currentLineIndex = Len(ml.lines)
                     /\ MlScheduled(lineDelay)
             /\ (HasSinks /\ Done)
                  => /\ MlScheduledNothing
                     /\ ml'.wrote = << >>
                     /\ ml'.elements = ml.elements
                     /\ ml'.currentLineIndex = ml.currentLineIndex
                     /\ ml'.currentCharIndex = ml.currentCharIndex]_vars

\* the tick scheduled by the last line of two has run in Done
IdleTickRan ==
    /\ mlog.op = "tick"
    /\ HasSinks /\ Done
    /\ Len(ml.lines) = 2
    /\ ml.wrote = << >>
    /\ ml.timers = {}
    /\ ml.elements = ml.lines

\* C23 as stated: with showCursor, in Done the last sink shows the last line
\* followed by the cursor character.
CursorStaysInDone ==
    (HasSinks /\ Done /\ ml.showCursor)
        => ml.elements[LastLine + 1] = Append(ml.lines[LastLine + 1], cursorChar)

HasCursor(text) == \E k \in 1..Len(text) : text[k] = cursorChar

\* C23: in Done the last sink shows the last line without the cursor
\* character; a sink shows the cursor only with showCursor, on the last line,
\* while the machine is inside that line, after the typed prefix.
CursorRemovedInDone ==
    /\ (HasSinks /\ Done) => ml.elements[LastLine + 1] = ml.lines[LastLine + 1]
    /\ \A j \in 1..Len(ml.elements) :
          HasCursor(ml.elements[j])
              => /\ ml.showCursor
                 /\ j = LastLine + 1
                 /\ ml.currentLineIndex = LastLine
                 /\ ml.currentCharIndex > 0
                 /\ ml.elements[j] =
                        Append(SubSeq(ml.lines[j], 1, ml.currentCharIndex), cursorChar)

\* with showCursor the last line "c" was typed with the cursor and stands
\* without it in Done
CursorGoneAfterLastLine ==
    /\ mlog.op = "tick"
    /\ ml.showCursor
    /\ HasSinks /\ Done
    /\ ml.lines = << <<"a", "b">>, <<"c">> >>
    /\ ml.wrote = << [sink |-> 1, text |-> <<"c">>] >>

Typed(text) == SelectSeq(text, LAMBDA c : c # cursorChar)

\* C25: in an undisturbed run a typing tick in line i writes to sink i only
\* and makes its text one character longer, a prefix of lines[i]; every sink
\* after the current line is empty; in Done every sink i shows lines[i].
SinksFillInOrder ==
    [][mlog'.op = "tick"
          => LET i == ml.currentLineIndex
             IN  /\ (~Done /\ ml.currentCharIndex < Len(ml.lines[i + 1]))
                      => /\ Len(ml'.wrote) = 1
                         /\ ml'.wrote[1].sink = i
                         /\ Typed(ml'.elements[i + 1]) =
                                SubSeq(ml.lines[i + 1], 1, ml.currentCharIndex + 1)
                         /\ Len(Typed(ml'.elements[i + 1])) =
                                Len(Typed(ml.elements[i + 1])) + 1
                         /\ \A j \in 1..Len(ml.elements) :
                                j # i + 1 => ml'.elements[j] = ml.elements[j]
                 /\ \A j \in 1..Len(ml'.elements) :
                        j > ml'.currentLineIndex + 1 => ml'.elements[j] = << >>
                 /\ ml'.currentLineIndex = Len(ml.lines)
                      => ml'.elements = ml.lines]_vars

\* the run on lines "ab", "c" without cursor: sink 0 showed "a", then "ab",
\* then sink 1 showed "c", and the machine is done
RunOfAbAndC ==
    /\ ~ml.showCursor
    /\ Done
    /\ ml.elements = << <<"a", "b">>, <<"c">> >>
    /\ [k \in 1..Len(mlog.writes) |->
            <<mlog.writes[k].sink, mlog.writes[k].text>>]
         = << <<0, <<"a">>>>, <<0, <<"a", "b">>>>, <<0, <<"a", "b">>>>,
              <<1, <<"c">>>>, <<1, <<"c">>>> >>

\* C26: an undisturbed MultiLineTypingEffect with a container eventually has
\* its index at |lines| with no timer pending; on the way no sink loses a
\* typed character and the index never goes back.
MultiLineTerminates ==
    /\ <>(Done /\ ml.timers = {})
    /\ [][/\ ml'.currentLineIndex >= ml.currentLineIndex
           /\ \A j \in 1..Len(ml.elements) :
                 /\ Len(Typed(ml'.elements[j])) >= Len(Typed(ml.elements[j]))
                 /\ Typed(ml.elements[j]) =
                        SubSeq(Typed(ml'.elements[j]), 1, Len(Typed(ml.elements[j])))]_vars

\* three lines were passed once: six writes, sinks in order, nothing pending
ThreeLinesInOnePass ==
    /\ Len(ml.lines) = 3
    /\ Done
    /\ ml.timers = {}
    /\ [k \in 1..Len(mlog.writes) |-> mlog.writes[k].sink] = <<0, 0, 1, 2, 2, 2>>

\* C27: the first timer that fires after reset(), with no call in between,
\* writes to no sink.
MlResetSilencesTicks ==
    [][(mlog.op = "reset" /\ mlog'.op = "tick") => ml'.wrote = << >>]_vars

\* what reset() itself leaves behind
MlResetClearsState ==
    [][mlog'.op = "reset"
          => /\ ml'.currentLineIndex = 0
             /\ ml'.currentCharIndex = 0
             /\ ml'.timeoutId = NoTimer
             /\ \A j \in 1..Len(ml'.elements) : ml'.elements[j] = << >>
             /\ ~ml'.threw]_vars

WriteIndexes == 1..Len(mlog.writes)
First(S) == CHOOSE k \in S : \A k2 \in S : k <= k2
\* the writes that show line i in full, and those that show text in sink i
ShowsInFull(i) ==
    {k \in WriteIndexes : /\ mlog.writes[k].sink = i
                          /\ mlog.writes[k].text = ml.lines[i + 1]}
ShowsText(i) ==
    {k \in WriteIndexes : /\ mlog.writes[k].sink = i
                          /\ mlog.writes[k].text # << >>}
FullAt(i) == mlog.writes[First(ShowsInFull(i))].t
BeganAt(i) == mlog.writes[First(ShowsText(i))].t
NonLastLines == 0..(Len(ml.lines) - 2)

\* C28 as stated: the first character of line i+1 appears lineDelay after
\* the tick at which line i was first shown in full.
NextLineAfterLineDelay ==
    \A i \in NonLastLines :
        ShowsText(i + 1) # {} => BeganAt(i + 1) = FullAt(i) + lineDelay

\* C28: the first character of line i+1 appears lineDelay after the tick
\* that completes line i; for a non-empty line that tick runs typeSpeed
\* after the one that first showed the line in full.
NextLineAfterCompletionTick ==
    \A i \in NonLastLines :
        ShowsText(i + 1) # {}
            => BeganAt(i + 1) = FullAt(i) + lineDelay
                    + (IF Len(ml.lines[i + 1]) > 0 THEN typeSpeed ELSE 0)

\* lines "ab", "c": "ab" shown at typeSpeed, "c" at 2 typeSpeed + lineDelay
AbThenCOnTime ==
    /\ ml.lines = << <<"a", "b">>, <<"c">> >>
    /\ ShowsText(1) # {}
    /\ FullAt(0) = typeSpeed
    /\ BeganAt(1) = typeSpeed + typeSpeed + lineDelay

\* C29: while a TypingEffect is paused, a timer that fires, passing time,
\* start(), stop() and pause() leave text index, character count, direction
\* and displayed text as they are, leave it paused and schedule nothing.
PausedTicksAreNoOps ==
    [][(te.isPaused /\ lastOp' \in {"tick", "advance", "start", "stop", "pause", "hide"})
          => /\ Position(te') = Position(te)
             /\ te'.textContent = te.textContent
             /\ te'.isPaused
             /\ ~te'.threw
             /\ Cardinality(te'.timers) <= Cardinality(te.timers)
             /\ lastOp' = "tick" => /\ te'.timers \subseteq te.timers
                                    /\ te'.timeoutId = te.timeoutId]_vars

\* a timer the paused machine no longer held has fired and left it as it was,
\* in the middle of a text
StrayTickWhilePaused ==
    /\ lastOp = "tick"
    /\ Initialised
    /\ te.isPaused
    /\ pre.isPaused
    /\ pre.pending = 1
    /\ te.timers = {}
    /\ te.currentCharIndex = 1
    /\ te.textContent = <<"a">>

\* C30: changeTexts(newTexts) with a non-empty list, on a machine with a
\* sink, leaves the machine on the new list at text 0, not paused, showing
\* the first character of newTexts[0], with exactly one tick pending.
ChangeTextsLeavesOneTick ==
    [][(lastOp' = "changeTexts" /\ te.element /\ Len(te'.texts) > 0)
          => /\ te'.currentTextIndex = 0
             /\ ~te'.isPaused
             /\ te'.textContent = substring(te'.texts[1], 0, 1)
             /\ Cardinality(te'.timers) = 1]_vars

\* the part of C30 that does not count timers
ChangeTextsRestarts ==
    [][(lastOp' = "changeTexts" /\ te.element /\ Len(te'.texts) > 0)
          => /\ te'.currentTextIndex = 0
             /\ ~te'.isPaused
             /\ te'.textContent = substring(te'.texts[1], 0, 1)
             /\ te'.currentCharIndex = 1
             /\ te'.timeoutId # NoTimer
             /\ \E t \in te'.timers : t.id = te'.timeoutId]_vars

----------------------------------------------------------------------------
\* C31: a typeWriter and a TypingEffect with loop: true, given the same
\* non-empty list of non-empty texts and the same delays, write the same
\* texts to their sinks in the same order, each the same time after the
\* write before it; when no timer is due both have made the same writes.
SameDisplays ==
    /\ \A i \in 1..Min(Len(plog.te), Len(plog.tw)) : plog.te[i] = plog.tw[i]
    /\ (\A t \in te.timers \cup tw.timers : t.rem > 0) => plog.te = plog.tw

\* both have shown a text in full, held it, deleted it and gone on
PairWentRound ==
    /\ plog.te = plog.tw
    /\ Len(plog.tw) = MaxDisplays
    /\ \E i \in 2..Len(plog.tw) :
          /\ plog.tw[i].after = pauseTime
          /\ \E j \in (i + 1)..Len(plog.tw) :
                plog.tw[j].text = << >> /\ plog.tw[j].after = deleteSpeed

----------------------------------------------------------------------------
\* C32: as long as reset() is not called, every sink before the current line
\* shows exactly its line and no cursor character, every sink after the
\* current line is empty, and a cursor character is shown only on the sink of
\* the last line, while that line is the current one and is being typed.
SinksFollowLineIndex ==
    \A j \in 0..(Len(ml.elements) - 1) :
        /\ j < ml.currentLineIndex
              => ml.elements[j + 1] = ml.lines[j + 1] /\ ~HasCursor(ml.elements[j + 1])
        /\ j > ml.currentLineIndex => ml.elements[j + 1] = << >>
        /\ HasCursor(ml.elements[j + 1])
              => /\ j = LastLine /\ ml.currentLineIndex = LastLine
                 /\ ml.currentCharIndex > 0

\* the last of three lines is being typed with the cursor after it, the
\* lines before it stand in full
CursorOnThirdLine ==
    /\ Len(ml.lines) = 3 /\ ml.currentLineIndex = 2
    /\ ml.elements[1] = ml.lines[1] /\ ml.elements[2] = ml.lines[2]
    /\ ml.elements[3] = <<"b", cursorChar>>

----------------------------------------------------------------------------
\* C33: a click whose filter request arrives while a filter animation runs,
\* or that asks for the current filter, leaves currentFilter, the cards' display
\* and opacity, the timers and the flag as they were; when isAnimating goes
\* back to false exactly the cards of the current filter's category (all
\* cards for "all") are displayed; and whenever isAnimating is set it is
\* eventually cleared.
FilterIsGuarded ==
    /\ [][\A f \in Filters :
            (pc'.last = [op |-> "click", filter |-> f]
                /\ (pc.isAnimating \/ pc.currentFilter = f))
              => /\ pc'.currentFilter = pc.currentFilter
                 /\ pc'.isAnimating = pc.isAnimating
                 /\ pc'.display = pc.display
                 /\ pc'.opacity = pc.opacity
                 /\ pc'.timers = pc.timers]_vars
    /\ [][(pc.isAnimating /\ ~pc'.isAnimating)
            => \A i \in 1..Len(pc.categories) :
                  (pc'.display[i] # "none")
                      <=> shouldShow(pc.categories[i], pc'.currentFilter)]_vars
    /\ pc.isAnimating ~> ~pc.isAnimating

\* the "web" filter has run to its end over three cards while "design" was
\* clicked during the animation: one card is hidden, two are displayed
WebFilterShown ==
    /\ pc.last = [op |-> "show", filter |-> "web"]
    /\ pc.active = {"design"}
    /\ pc.currentFilter = "web" /\ ~pc.isAnimating
    /\ pc.display = <<"none", "block", "block">>

\* C34: once a filter button has been clicked, the one active button is the
\* button of currentFilter.
ActiveButtonIsCurrentFilter ==
    pc.last.op # "new" => pc.active = {pc.currentFilter}

----------------------------------------------------------------------------
\* C35: at most one submission is in flight at any time, and the submit
\* button is disabled for as long as a submission is pending.
OneSubmissionInFlight ==
    /\ Cardinality(cc.pending) <= 1
    /\ (cc.hasButton /\ cc.pending # {}) => cc.disabled

\* C36: handleFormSubmit starts no submission when a field fails validation
\* (it shows an error notification and leaves the button as it was) and
\* starts one when every field passes; when a submission settles the button
\* is enabled again; the form is reset and the draft removed on success,
\* field values and draft are left alone on failure, and no other event
\* removes the draft.
SubmitHandlesFailure ==
    [][/\ cc'.last \in {"submit", "ctrlEnter"}
            => IF \E f \in Fields : ~FieldValid(cc.values[f])
               THEN /\ cc'.pending = cc.pending
                    /\ cc'.disabled = cc.disabled
                    /\ cc'.note = "error"
               ELSE Cardinality(cc'.pending) = Cardinality(cc.pending) + 1
       /\ cc'.last \in {"resolve", "reject"} => ~cc'.disabled
       /\ cc'.last = "resolve"
            => cc'.values = NoValues /\ ~cc'.draft.saved /\ cc'.note = "success"
       /\ cc'.last = "reject"
            => cc'.values = cc.values /\ cc'.draft = cc.draft /\ cc'.note = "error"
       /\ (cc.draft.saved /\ ~cc'.draft.saved) => cc'.last = "resolve"]_vars

\* a submission of a valid form with a saved draft has failed: the values
\* and the draft are still there and the button is enabled again
FailedWithDraftKept ==
    /\ cc.last = "reject" /\ cc.hasButton /\ ~cc.disabled
    /\ cc.pending = {}
    /\ \A f \in Fields : cc.values[f] = "good"
    /\ cc.draft = Draft(cc.values)

----------------------------------------------------------------------------
\* C37: whatever loads, fails or throws during start-up, hideLoadingScreen
\* is never called twice and is eventually called, after which the loading
\* screen is no longer shown; and isLoaded is true only if
\* initializeComponents, setupGlobalEventListeners and startAnimations have
\* all returned.
LoadingScreenGoes ==
    /\ [](app.hideCalls <= 1)
    /\ <>(app.hideCalls = 1 /\ app.screen # "shown")
    /\ [](app.isLoaded => app.completed = StartUpSteps)

\* startAnimations threw after an image failed to load: the screen has been
\* hidden once and removed, and the application does not count as loaded
HiddenAfterThrow ==
    /\ app.hideCalls = 1 /\ app.screen = "removed"
    /\ ~app.isLoaded
    /\ app.completed = {"initializeComponents", "setupGlobalEventListeners"}
    /\ \E i \in 1..MaxImages : app.images[i] = "failed"

\* C38: when the application started with no 'theme' entry, a change of the
\* system colour scheme sets data-theme to "dark" or "light" accordingly;
\* when it started with a saved theme, the change leaves data-theme alone.
ThemeFollowsSystem ==
    [][(app'.last = "schemeChange" /\ app.listening)
          => IF app.startedWithoutTheme
             THEN app'.dataTheme = (IF app'.systemDark THEN "dark" ELSE "light")
             ELSE app'.dataTheme = app.dataTheme]_vars

====
